---- MODULE Spec2Model ----
(***************************************************************************)
(* Model of Vid-to-Thumb.py: the frame resolver (calculate_frame_number,   *)
(* parse_time), the name templater (apply_regex_pattern), the path         *)
(* de-duplication (avoid_overwrite) and the batch driver (process_videos,  *)
(* extract_frame, the __main__ block).                                     *)
(*                                                                         *)
(* Python strings are sequences of one-character strings.  The external    *)
(* decoder and encoder (cv2) are collaborators: what they report (frame    *)
(* count, fps) is part of each video of the input, and whether an open, a  *)
(* read or a write succeeds is chosen nondeterministically per call.       *)
(***************************************************************************)
EXTENDS Integers, Sequences, FiniteSets, TLC

VARIABLES
    pc,                  \* "start" | "loop" | "done" | "exit1"
    frame_option,        \* args.frame: [kind |-> "int", n |-> i] or [kind |-> "str", s |-> chars]
    name_pattern,        \* args.name: chars; <<>> stands for None and '' (both falsy)
    keep_original_name,  \* args.original_name
    output_format,       \* args.format
    files,               \* the list process_videos iterates: videos as the decoder reports them
    i,                   \* position of the for loop of process_videos (next file)
    fs,                  \* names existing in the output directory
    log                  \* one record per extract_frame call, in call order

vars == <<pc, frame_option, name_pattern, keep_original_name, output_format,
          files, i, fs, log>>

-----------------------------------------------------------------------------
(* Characters and strings *)

Digits == <<"0", "1", "2", "3", "4", "5", "6", "7", "8", "9">>

\* str.isdigit on one character (ASCII)
IsDigit(c) == \E k \in 1..Len(Digits) : Digits[k] = c

Letters == {"a", "b", "c", "d", "e", "f", "g", "h", "i", "j", "k", "l", "m",
            "n", "o", "p", "q", "r", "s", "t", "u", "v", "w", "x", "y", "z",
            "X", "Y"}

\* str.isalpha on one character
IsAlpha(c) == c \in Letters

\* the regex class \w
IsWord(c) == IsAlpha(c) \/ IsDigit(c) \/ c = "_"

DigitVal(c) == (CHOOSE k \in 1..Len(Digits) : Digits[k] = c) - 1

\* s[a:b] of Python with 0 <= a, counted in characters (1-based a+1 .. b here)
Slice(s, a, b) == IF b < a THEN <<>> ELSE SubSeq(s, a, IF b > Len(s) THEN Len(s) ELSE b)

\* s.startswith(p)
StartsWith(s, p) == Len(s) >= Len(p) /\ SubSeq(s, 1, Len(p)) = p

\* p occurs in s at position k
OccursAt(s, p, k) == k >= 1 /\ k + Len(p) - 1 <= Len(s) /\ SubSeq(s, k, k + Len(p) - 1) = p

RECURSIVE NatStr(_)
\* str(n) for n >= 0
NatStr(n) == IF n < 10 THEN <<Digits[n + 1]>> ELSE NatStr(n \div 10) \o <<Digits[(n % 10) + 1]>>

RECURSIVE StrNat(_)
\* int(s) for a non-empty string of digits
StrNat(s) == IF Len(s) = 1 THEN DigitVal(s[1])
             ELSE StrNat(SubSeq(s, 1, Len(s) - 1)) * 10 + DigitVal(s[Len(s)])

RECURSIVE ZeroPad(_, _)
ZeroPad(s, width) == IF Len(s) >= width THEN s ELSE ZeroPad(<<"0">> \o s, width)

\* f"{n:06d}": the sign counts in the width and comes before the zeros
Format06d(n) == IF n >= 0 THEN ZeroPad(NatStr(n), 6)
                ELSE <<"-">> \o ZeroPad(NatStr(-n), 5)

\* int(x) of Python for the rational x = a/b, b > 0: truncation toward zero
Trunc(a, b) == IF a >= 0 THEN a \div b ELSE -((-a) \div b)

\* round(a/b) to the nearest integer, ties to even, for a >= 0, b > 0
RoundHalfEven(a, b) ==
    LET q == a \div b
        r == a % b
    IN  IF 2 * r < b THEN q
        ELSE IF 2 * r > b THEN q + 1
        ELSE IF q % 2 = 0 THEN q ELSE q + 1

Min(a, b) == IF a < b THEN a ELSE b
Max(a, b) == IF a > b THEN a ELSE b

-----------------------------------------------------------------------------
(* Frame resolver *)

\* the default of line 106
DEFAULT_FPS == 30

RECURSIVE ParseTimeFrom(_, _, _, _)
\* the for loop of parse_time from character k on, with current_value = cur;
\* int('') raises ValueError: [ok |-> FALSE]
ParseTimeFrom(time_str, k, cur, parts) ==
    IF k > Len(time_str)
    THEN IF cur # <<>> THEN [parts EXCEPT !.seconds = StrNat(cur)] ELSE parts
    ELSE LET char == time_str[k] IN
         IF IsDigit(char)
         THEN ParseTimeFrom(time_str, k + 1, cur \o <<char>>, parts)
         ELSE IF char \in {"h", "m", "s"}
         THEN IF cur = <<>>
              THEN [parts EXCEPT !.ok = FALSE]
              ELSE ParseTimeFrom(time_str, k + 1, <<>>,
                       IF char = "h" THEN [parts EXCEPT !.hours = StrNat(cur)]
                       ELSE IF char = "m" THEN [parts EXCEPT !.minutes = StrNat(cur)]
                       ELSE [parts EXCEPT !.seconds = StrNat(cur)])
         ELSE ParseTimeFrom(time_str, k + 1, cur, parts)

parse_time(time_str) ==
    ParseTimeFrom(time_str, 1, <<>>, [ok |-> TRUE, hours |-> 0, minutes |-> 0, seconds |-> 0])

\* timedelta(hours, minutes, seconds).total_seconds()
total_seconds(parts) == parts.hours * 3600 + parts.minutes * 60 + parts.seconds

Str_t_plus == <<"t", "+">>

\* lines 18-23 of calculate_frame_number, given what parse_time returned
\* (parts.ok false: it raised, and the bare except of line 21 returns 0)
FrameOfTime(cap, parts) ==
    IF parts.ok
    THEN [value |-> Min(Trunc(total_seconds(parts) * cap.fps.num, cap.fps.den), cap.total - 1),
          warned |-> FALSE]
    ELSE [value |-> 0, warned |-> TRUE]

\* calculate_frame_number with line 14 as min(frame_option, total_frames-1)
calculate_frame_number_NoFloor(cap, option) ==
    IF option.kind = "int"
    THEN [value |-> Min(option.n, cap.total - 1), warned |-> FALSE]
    ELSE IF StartsWith(option.s, Str_t_plus)
    THEN FrameOfTime(cap, parse_time(Slice(option.s, 3, Len(option.s))))
    ELSE [value |-> 0, warned |-> TRUE]

\* calculate_frame_number(cap, frame_option); warned: a message was printed
calculate_frame_number(cap, option) ==
    IF option.kind = "int"
    THEN [value |-> Min(Max(option.n, 0), cap.total - 1), warned |-> FALSE]
    ELSE IF StartsWith(option.s, Str_t_plus)
    THEN FrameOfTime(cap, parse_time(Slice(option.s, 3, Len(option.s))))
    ELSE [value |-> 0, warned |-> TRUE]

\* "{x:.2f}s" for |x| = h hundredths
Format2f(negative, h) ==
    (IF negative THEN <<"-">> ELSE <<>>)
    \o NatStr(h \div 100) \o <<".">> \o ZeroPad(NatStr(h % 100), 2) \o <<"s">>

Abs(n) == IF n < 0 THEN -n ELSE n

\* f"{frame_number / fps:.2f}s" for fps > 0
TimeLabel(frame_number, fps) ==
    Format2f(frame_number < 0, RoundHalfEven(Abs(frame_number) * fps.den * 100, fps.num))

-----------------------------------------------------------------------------
(* Name templater *)

RECURSIVE ReplaceFrom(_, _, _, _)
\* s.replace(old, new) for a non-empty old, from position k on: every
\* non-overlapping occurrence, left to right
ReplaceFrom(s, old, new, k) ==
    IF k > Len(s) THEN <<>>
    ELSE IF OccursAt(s, old, k) THEN new \o ReplaceFrom(s, old, new, k + Len(old))
    ELSE <<s[k]>> \o ReplaceFrom(s, old, new, k + 1)

RECURSIVE InsertBefore(_, _, _)
\* s.replace('', new): new before every character and at the end
InsertBefore(s, new, k) ==
    IF k > Len(s) THEN new ELSE new \o <<s[k]>> \o InsertBefore(s, new, k + 1)

\* str.replace(old, new)
Replace(s, old, new) ==
    IF old = <<>> THEN InsertBefore(s, new, 1) ELSE ReplaceFrom(s, old, new, 1)

\* index of the first c in s at or after k, 0 when there is none
RECURSIVE IndexFrom(_, _, _)
IndexFrom(s, c, k) ==
    IF k > Len(s) THEN 0 ELSE IF s[k] = c THEN k ELSE IndexFrom(s, c, k + 1)

\* s.rfind(c), 1-based, 0 when there is none
RECURSIVE LastIndex(_, _, _)
LastIndex(s, c, k) ==
    IF k < 1 THEN 0 ELSE IF s[k] = c THEN k ELSE LastIndex(s, c, k - 1)

\* os.path.splitext(p): the extension starts at the last dot of the last
\* component, unless only dots come before it in that component
SplitAt(p, sep, dot) ==
    IF dot > sep /\ \E k \in (sep + 1)..(dot - 1) : p[k] # "."
    THEN [root |-> SubSeq(p, 1, dot - 1), ext |-> SubSeq(p, dot, Len(p))]
    ELSE [root |-> p, ext |-> <<>>]

splitext(p) == SplitAt(p, LastIndex(p, "/", Len(p)), LastIndex(p, ".", Len(p)))

\* str.isdigit on a string
AllDigits(s) == Len(s) > 0 /\ \A k \in 1..Len(s) : IsDigit(s[k])

AllWord(s) == \A k \in 1..Len(s) : IsWord(s[k])

Tok_n == <<"{", "n", "}">>
Tok_f == <<"{", "f", "}">>
Tok_t == <<"{", "t", "}">>
Tok_base == <<"{", "n", ".", "b", "a", "s", "e", "}">>
Tok_digits == <<"{", "n", ".", "d", "i", "g", "i", "t", "s", "}">>
Tok_letters == <<"{", "n", ".", "l", "e", "t", "t", "e", "r", "s", "}">>
Str_match == <<"n", ".", "m", "a", "t", "c", "h", "(">>
Str_replace == <<"n", ".", "r", "e", "p", "l", "a", "c", "e", "(">>
Str_error == <<"_", "e", "r", "r", "o", "r">>

\* the loop of lines 77-78 over the dict of lines 46-53, in insertion order
SubstituteTokens(original, pattern, frame_num, time_pos) ==
    Replace(Replace(Replace(Replace(Replace(Replace(pattern,
        Tok_n, original),
        Tok_f, Format06d(frame_num)),
        Tok_t, time_pos),
        Tok_base, splitext(original).root),
        Tok_digits, SelectSeq(original, IsDigit)),
        Tok_letters, SelectSeq(original, IsAlpha))

(* re.search(regex, s) for regexes made of literal characters, the wildcard *)
(* '.', and groups '(' ... ')'.                                            *)

RECURSIVE ParenDepth(_, _, _)
\* the nesting depth after the regex, -1 once a ')' closes nothing
ParenDepth(regex, k, depth) ==
    IF depth < 0 \/ k > Len(regex) THEN depth
    ELSE ParenDepth(regex, k + 1,
             IF regex[k] = "(" THEN depth + 1
             ELSE IF regex[k] = ")" THEN depth - 1 ELSE depth)

\* re.compile accepts the regex
RegexValid(regex) == ParenDepth(regex, 1, 0) = 0

IsNotParen(c) == c \notin {"(", ")"}

\* the regex's atoms in order: groups only group
RegexAtoms(regex) == SelectSeq(regex, IsNotParen)

AtomsMatchAt(atoms, s, k) ==
    /\ k + Len(atoms) - 1 <= Len(s)
    /\ \A j \in 1..Len(atoms) : atoms[j] = "." \/ atoms[j] = s[k + j - 1]

Returned(s) == [ok |-> TRUE, s |-> s]
Raised == [ok |-> FALSE, s |-> <<>>]

SetMin(S) == CHOOSE x \in S : \A y \in S : x <= y

\* lines 66-68: matched.group() of the leftmost match, '' when there is none
GroupOrEmpty(s, len, hits) ==
    IF hits = {} THEN Returned(<<>>)
    ELSE Returned(SubSeq(s, SetMin(hits), SetMin(hits) + len - 1))

SearchAtoms(atoms, s) ==
    GroupOrEmpty(s, Len(atoms), {k \in 1..(Len(s) + 1) : AtomsMatchAt(atoms, s, k)})

\* lines 64-68: re.search(regex, s) raises re.error for an invalid regex
re_search(regex, s) ==
    IF ~RegexValid(regex) THEN Raised ELSE SearchAtoms(RegexAtoms(regex), s)

\* regex_replacer(match) with command = match.group(1), whole = match.group(0)
\* command.split(':')[1], given the positions of the first two colons (0: none)
SecondPart(command, colon, colon2) ==
    SubSeq(command, colon + 1, IF colon2 = 0 THEN Len(command) ELSE colon2 - 1)

\* lines 58-61: the command is n:<digits>; colon is the first ':' (0: none)
IsPrefixCommand(command, colon) ==
    /\ colon # 0
    /\ SubSeq(command, 1, colon - 1) = <<"n">>
    /\ AllDigits(SecondPart(command, colon, IndexFrom(command, ":", colon + 1)))

PrefixLength(command, colon) ==
    StrNat(SecondPart(command, colon, IndexFrom(command, ":", colon + 1)))

\* lines 71-72 with split(',') for split(',', 1): args[1] ends at the second comma
ReplaceArgs_SplitAll(original, inner, comma) ==
    IF comma = 0 THEN Raised
    ELSE Returned(Replace(original, SubSeq(inner, 1, comma - 1),
                          SubSeq(inner, comma + 1,
                                 IF IndexFrom(inner, ",", comma + 1) = 0 THEN Len(inner)
                                 ELSE IndexFrom(inner, ",", comma + 1) - 1)))

\* lines 71-72: args = inner.split(',', 1); args[1] raises IndexError without a comma
ReplaceArgs(original, inner, comma) ==
    IF comma = 0 THEN Raised
    ELSE Returned(Replace(original, SubSeq(inner, 1, comma - 1),
                          SubSeq(inner, comma + 1, Len(inner))))

ReplaceCommand(original, inner) == ReplaceArgs(original, inner, IndexFrom(inner, ",", 1))

\* regex_replacer(match), lines 58-74, with colon the first ':' of the command
ReplacerAt(original, command, whole, colon) ==
    IF IsPrefixCommand(command, colon)
    THEN Returned(Slice(original, 1, PrefixLength(command, colon)))
    ELSE IF StartsWith(command, Str_match)
    THEN re_search(Slice(command, 9, Len(command) - 1), original)
    ELSE IF StartsWith(command, Str_replace)
    THEN ReplaceCommand(original, Slice(command, 11, Len(command) - 1))
    ELSE Returned(whole)

\* regex_replacer(match) with command = match.group(1), whole = match.group(0)
regex_replacer(original, command, whole) ==
    ReplacerAt(original, command, whole, IndexFrom(command, ":", 1))

\* the text between '{' and the next '}' matches the group of the pattern of
\* the re.sub of line 80 (1), 81 (2), 82 (3) or 83 (4)
WordsAround(c, dot) ==
    /\ dot > 1
    /\ dot < Len(c)
    /\ AllWord(SubSeq(c, 1, dot - 1))
    /\ AllWord(SubSeq(c, dot + 1, Len(c)))

WordBefore(c, colon) ==
    /\ colon > 1
    /\ colon < Len(c)
    /\ AllWord(SubSeq(c, 1, colon - 1))

GroupMatches(pass, c) ==
    IF pass = 1 THEN WordsAround(c, IndexFrom(c, ".", 1))
    ELSE IF pass = 2 THEN WordBefore(c, IndexFrom(c, ":", 1))
    ELSE IF pass = 3
    THEN StartsWith(c, Str_match) /\ Len(c) >= Len(Str_match) + 2 /\ c[Len(c)] = ")"
    ELSE StartsWith(c, Str_replace) /\ Len(c) >= Len(Str_replace) + 2 /\ c[Len(c)] = ")"

\* a replacement followed by the rest of the text; an exception in either
\* leaves re.sub
Joined(r, rest) == IF r.ok /\ rest.ok THEN Returned(r.s \o rest.s) ELSE Raised

\* the '}' that closes a '{' at position k of s, 0 when s[k] is no '{' or none follows
CloseOf(s, k) == IF s[k] = "{" THEN IndexFrom(s, "}", k + 1) ELSE 0

RECURSIVE re_sub(_, _, _, _)
RECURSIVE SubAt(_, _, _, _, _)
\* re.sub at position k, where close = CloseOf(s, k)
SubAt(pass, original, s, k, close) ==
    IF close # 0 /\ GroupMatches(pass, SubSeq(s, k + 1, close - 1))
    THEN Joined(regex_replacer(original, SubSeq(s, k + 1, close - 1), SubSeq(s, k, close)),
                re_sub(pass, original, s, close + 1))
    ELSE Joined(Returned(<<s[k]>>), re_sub(pass, original, s, k + 1))

\* re.sub(pattern of the pass, regex_replacer, s) from position k on
re_sub(pass, original, s, k) ==
    IF k > Len(s) THEN Returned(<<>>) ELSE SubAt(pass, original, s, k, CloseOf(s, k))

\* one re.sub of lines 80-83 on what the statements before it left
Pass(pass, original, prev) ==
    IF prev.ok THEN re_sub(pass, original, prev.s, 1) ELSE Raised

\* the try block of apply_regex_pattern, lines 77-85
PatternBody(original, pattern, frame_num, time_pos) ==
    Pass(4, original, Pass(3, original, Pass(2, original, Pass(1, original,
        Returned(SubstituteTokens(original, pattern, frame_num, time_pos))))))

\* apply_regex_pattern without its except clause: the exception leaves it
OrErrorName_Reraise(original, body) == body

\* the except clause of lines 87-89
OrErrorName(original, body) ==
    IF body.ok THEN body ELSE Returned(original \o Str_error)

\* apply_regex_pattern(original, pattern, frame_num, time_pos)
apply_regex_pattern(original, pattern, frame_num, time_pos) ==
    OrErrorName(original, PatternBody(original, pattern, frame_num, time_pos))

-----------------------------------------------------------------------------
(* Path de-duplication *)

\* avoid_overwrite with an if for its while: one numbered name is tried
AvoidFrom_Once(base, ext, path, counter, exists) ==
    IF path \notin exists THEN path
    ELSE base \o <<"_">> \o NatStr(counter) \o ext

RECURSIVE AvoidFrom(_, _, _, _, _)
\* the while loop of avoid_overwrite; exists: the paths os.path.exists finds
AvoidFrom(base, ext, path, counter, exists) ==
    IF path \notin exists THEN path
    ELSE AvoidFrom(base, ext, base \o <<"_">> \o NatStr(counter) \o ext, counter + 1, exists)

\* lines 143-148 after base, ext = os.path.splitext(path)
AvoidSplit(parts, path, exists) == AvoidFrom(parts.root, parts.ext, path, 1, exists)

avoid_overwrite(path, exists) == AvoidSplit(splitext(path), path, exists)

-----------------------------------------------------------------------------
(* Batch driver *)

\* the default of --output, line 174
output_dir == <<".", "/", "t", "h", "u", "m", "b", "n", "a", "i", "l", "s">>

\* os.path.join(a, b)
path_join(a, b) ==
    IF Len(b) > 0 /\ b[1] = "/" THEN b
    ELSE IF a = <<>> \/ a[Len(a)] = "/" THEN a \o b
    ELSE a \o <<"/">> \o b

\* os.path.basename(p)
basename(p) == SubSeq(p, LastIndex(p, "/", Len(p)) + 1, Len(p))

\* line 120
original_name(video_path) == splitext(basename(video_path)).root

\* lines 103-106: the fps the time label is computed with
LabelFps(cap) == IF cap.fps.num <= 0 THEN [num |-> DEFAULT_FPS, den |-> 1] ELSE cap.fps

\* line 117
time_position(cap, frame_number) == TimeLabel(frame_number, LabelFps(cap))

\* line 127
DefaultName(original, frame_number, time_pos) ==
    original \o <<"_", "f">> \o Format06d(frame_number) \o <<"_">> \o time_pos

\* lines 122-127: the name, or Raised when building it raises
FilenameOf(original, frame_number, time_pos) ==
    IF keep_original_name THEN Returned(original)
    ELSE IF name_pattern # <<>>
    THEN apply_regex_pattern(original, name_pattern, frame_number, time_pos)
    ELSE Returned(DefaultName(original, frame_number, time_pos))

Filename(cap, frame_number) ==
    FilenameOf(original_name(cap.path), frame_number, time_position(cap, frame_number))

\* lines 130-131
Written(requested) == [requested |-> requested, path |-> avoid_overwrite(requested, fs)]

OutputPath(filename) == path_join(output_dir, filename \o <<".">> \o output_format)

NoName == <<>>
NotWritten == [requested |-> NoName, path |-> NoName]
NotResolved == [value |-> 0, warned |-> FALSE]
NotNamed == [ok |-> FALSE, s |-> NoName]

\* what one call of extract_frame did
Entry(file, outcome, resolved, r, name, written) ==
    [file |-> file, outcome |-> outcome,
     resolved |-> resolved, frame |-> r.value, warned |-> r.warned,
     fps_warned |-> resolved /\ files[file].fps.num <= 0,
     sought |-> resolved, named |-> name.ok, filename |-> name.s,
     requested |-> written.requested, path |-> written.path]

\* the for loop of process_videos moves to the next file
Advance ==
    /\ i' = i + 1
    /\ pc' = IF i + 1 > Len(files) THEN "done" ELSE "loop"
    /\ UNCHANGED <<frame_option, name_pattern, keep_original_name, output_format, files>>

\* lines 182-184: both --original-name and --name given
ConfigError ==
    /\ pc = "start"
    /\ keep_original_name /\ name_pattern # <<>>
    /\ pc' = "exit1"
    /\ UNCHANGED <<frame_option, name_pattern, keep_original_name, output_format,
                   files, i, fs, log>>

\* lines 186-193 and 152-158: process_videos up to its for loop
ProcessVideos ==
    /\ pc = "start"
    /\ ~(keep_original_name /\ name_pattern # <<>>)
    /\ pc' = IF Len(files) = 0 THEN "done" ELSE "loop"
    /\ fs' = fs \cup {output_dir}
    /\ UNCHANGED <<frame_option, name_pattern, keep_original_name, output_format,
                   files, i, log>>

\* extract_frame ending the run when the capture does not open
ExtractOpenFails_Aborts ==
    /\ pc = "loop"
    /\ log' = Append(log, Entry(i, "open_failed", FALSE, NotResolved, NotNamed, NotWritten))
    /\ pc' = "done"
    /\ UNCHANGED <<frame_option, name_pattern, keep_original_name, output_format,
                   files, i, fs>>

\* extract_frame, lines 93-96: the capture does not open
ExtractOpenFails ==
    /\ pc = "loop"
    /\ log' = Append(log, Entry(i, "open_failed", FALSE, NotResolved, NotNamed, NotWritten))
    /\ UNCHANGED fs
    /\ Advance

\* extract_frame, lines 93-114 and 139: cap.read() fails
ExtractReadFails ==
    /\ pc = "loop"
    /\ log' = Append(log, Entry(i, "read_failed", TRUE,
                                calculate_frame_number(files[i], frame_option),
                                NotNamed, NotWritten))
    /\ UNCHANGED fs
    /\ Advance

\* lines 116-134 once the frame r is read, given the name and the path
SaveAs(r, name, w) ==
    /\ name.ok
    /\ log' = Append(log, Entry(i, "saved", TRUE, r, name, w))
    /\ fs' = fs \cup {w.path}

SaveNamed(r, name) == SaveAs(r, name, Written(OutputPath(name.s)))

SaveFrame(cap, r) == SaveNamed(r, Filename(cap, r.value))

\* extract_frame, lines 93-134 and 139: the frame is read and the image written
ExtractSaved ==
    /\ pc = "loop"
    /\ SaveFrame(files[i], calculate_frame_number(files[i], frame_option))
    /\ Advance

\* lines 116-134 where cv2.imwrite returns False
RefuseNamed(r, name) ==
    /\ name.ok
    /\ log' = Append(log, Entry(i, "unsaved", TRUE, r, name, Written(OutputPath(name.s))))

RefuseFrame(cap, r) == RefuseNamed(r, Filename(cap, r.value))

\* extract_frame, lines 93-134 and 139: cv2.imwrite returns False, no file appears
ExtractUnsaved ==
    /\ pc = "loop"
    /\ RefuseFrame(files[i], calculate_frame_number(files[i], frame_option))
    /\ UNCHANGED fs
    /\ Advance

\* lines 116-137 where an exception is raised: by the naming, or by cv2.imwrite
FailNamed(r, name) ==
    \E imwrite_raises \in BOOLEAN :
        /\ imwrite_raises \/ ~name.ok
        /\ log' = Append(log, Entry(i, "error", TRUE, r, name, NotWritten))

FailFrame(cap, r) == FailNamed(r, Filename(cap, r.value))

\* extract_frame, lines 93-139: an exception inside the try block (naming, or
\* cv2.imwrite refusing the format) is caught at line 136
ExtractError ==
    /\ pc = "loop"
    /\ FailFrame(files[i], calculate_frame_number(files[i], frame_option))
    /\ UNCHANGED fs
    /\ Advance

Next ==
    \/ ConfigError
    \/ ProcessVideos
    \/ ExtractOpenFails
    \/ ExtractReadFails
    \/ ExtractSaved
    \/ ExtractUnsaved
    \/ ExtractError

-----------------------------------------------------------------------------
(* Inputs: the command line and the videos, drawn from small sets *)

\* longest list of input files
MaxFiles == 2
\* most segments a generated --name template is put together from
MaxSegs == 2
\* most numbered copies of an output name already in the output directory
MaxExisting == 3

Video(path, total, num, den) == [path |-> path, total |-> total, fps |-> [num |-> num, den |-> den]]

IntOption(n) == [kind |-> "int", n |-> n]
StrOption(s) == [kind |-> "str", s |-> s]

Jpg == <<"j", "p", "g">>
ClipMp4 == <<"c", "l", "i", "p", ".", "m", "p", "4">>
DefaultTemplate == <<"{", "n", "}", "_", "f", "{", "f", "}", "_", "{", "t", "}">>

\* frame counts and frame rates (30, 24, 12.5, 0, -1) a decoder may report
Totals == {0, 1, 2, 100, 3000}
Rates == {<<30, 1>>, <<24, 1>>, <<25, 2>>, <<0, 1>>, <<-1, 1>>}

\* -n as an integer: below, inside and beyond the frames of every video
IntOptions == {IntOption(n) : n \in {-5, -1, 0, 1, 2, 42, 99, 100, 2999, 3000, 5000}}

\* well-formed time expressions after 't+'
WellFormedTimes ==
    {<<>>,
     <<"5">>,
     <<"2", "s">>,
     <<"9", "0">>,
     <<"1", "m", "3", "0", "s">>,
     <<"1", "h">>,
     <<"1", "h", "1", "m", "1", "s">>,
     <<"3", "m", "7">>}

\* time expressions with an unknown unit character
UnknownUnitTimes ==
    {<<"5", "x">>,
     <<"2", "x", "3">>,
     <<"1", "m", "3", "x", "0", "s">>}

\* time expressions with a unit letter that no digits precede
MalformedTimes ==
    {<<"s">>,
     <<"m", "5">>,
     <<"1", "h", "s">>}

\* time expressions that repeat a unit or follow 's' by bare digits
OverridingTimes ==
    {<<"3", "s", "7">>,
     <<"1", "m", "2", "m">>}

\* -n values that are neither an integer nor 't+...'
OtherOptions ==
    {<<"a", "b", "c">>,
     <<"-", "5">>,
     <<"t", "5">>}

TimeOptions ==
    {StrOption(Str_t_plus \o e) :
        e \in WellFormedTimes \cup UnknownUnitTimes \cup MalformedTimes \cup OverridingTimes}

FrameOptions == IntOptions \cup TimeOptions \cup {StrOption(s) : s \in OtherOptions}

\* pieces of --name templates
Segments ==
    {<<"{", "n", "}">>,
     <<"{", "f", "}">>,
     <<"{", "t", "}">>,
     <<"_">>,
     <<"{", "n", ".", "d", "i", "g", "i", "t", "s", "}">>,
     <<"{", "n", ":", "3", "}">>,
     <<"{", "x", ".", "y", "}">>,
     <<"{", "n", ".", "m", "a", "t", "c", "h", "(", "a", "n", ")", "}">>,
     <<"{", "n", ".", "m", "a", "t", "c", "h", "(", "(", ")", "}">>,
     <<"{", "n", ".", "r", "e", "p", "l", "a", "c", "e", "(", "a", ",", "X", ")", "}">>,
     <<"{", "n", ".", "r", "e", "p", "l", "a", "c", "e", "(", "a", "n", ",", ")", "}">>,
     <<"{", "n", ".", "r", "e", "p", "l", "a", "c", "e", "(", ",", "X", ")", "}">>,
     <<"{", "n", ".", "r", "e", "p", "l", "a", "c", "e", "(", "a", ",", "X", ",", "Y", ")", "}">>,
     <<"{", "n", ".", "r", "e", "p", "l", "a", "c", "e", "(", "a", ")", "}">>}

\* templates of one more token or directive each
FixedTemplates ==
    {<<"{", "n", "}", "_", "f", "{", "f", "}", "_", "{", "t", "}">>,
     <<"{", "n", ".", "b", "a", "s", "e", "}">>,
     <<"{", "n", ".", "l", "e", "t", "t", "e", "r", "s", "}">>,
     <<"{", "n", ":", "x", "}">>,
     <<"{", "n", ":", "0", "}">>,
     <<"{", "n", ".", "m", "a", "t", "c", "h", "(", ".", "b", ")", "}">>,
     <<"{", "n", ".", "m", "a", "t", "c", "h", "(", "z", ")", "}">>,
     <<"{", "n", ".", "m", "a", "t", "c", "h", "(", ")", ")", "}">>}

RECURSIVE Concats(_)
\* the concatenations of at most n segments
Concats(n) ==
    IF n = 0 THEN {<<>>}
    ELSE Concats(n - 1) \cup {a \o s : a \in Concats(n - 1), s \in Segments}

\* video file names: plain, with the text of a token in the name, with dots
CoreVideos ==
    {Video(p, 100, 30, 1) : p \in
     {<<"b", "a", "n", "a", "n", "a", ".", "m", "p", "4">>,
     <<"a", "{", "t", "}", "b", ".", "m", "p", "4">>,
     <<"v", "1", ".", "2", ".", "m", "k", "v">>}}

NamedVideos ==
    CoreVideos \cup {Video(p, 100, 30, 1) : p \in
     {<<"c", "l", "i", "p", ".", "m", "p", "4">>,
     <<"a", "b", "c", "d", "e", "f", ".", "m", "o", "v">>}}

RECURSIVE ListsUpTo(_, _)
\* the lists of at most n elements of S
ListsUpTo(S, n) ==
    IF n = 0 THEN {<<>>}
    ELSE ListsUpTo(S, n - 1) \cup {Append(l, x) : l \in ListsUpTo(S, n - 1), x \in S}

InitWith(options, patterns, keeps, lists, existing) ==
    /\ pc = "start"
    /\ frame_option \in options
    /\ name_pattern \in patterns
    /\ keep_original_name \in keeps
    /\ output_format = Jpg
    /\ files \in lists
    /\ i = 1
    /\ fs \in existing
    /\ log = <<>>

\* a batch: lists of videos with sound and with corrupt metadata
BatchVideos ==
    {Video(ClipMp4, 100, 30, 1), Video(<<"b", "a", "n", "a", "n", "a", ".", "m", "p", "4">>, 0, 30, 1), Video(<<"o", "u", "t", ".", "m", "p", "4">>, 50, 0, 1)}

Init ==
    InitWith({IntOption(0), IntOption(150), StrOption(<<"t", "+", "2", "s">>), StrOption(<<"t", "+", "s">>)},
             {<<>>, DefaultTemplate, <<"{", "n", ".", "r", "e", "p", "l", "a", "c", "e", "(", "a", ")", "}">>},
             BOOLEAN, ListsUpTo(BatchVideos, MaxFiles), {{}})

Spec == Init /\ [][Next]_vars

\* the for loop of process_videos is sequential and every call of
\* extract_frame returns: the driver always takes its next step
LiveSpec == Spec /\ WF_vars(Next)

\* frame resolution: one video, every frame option against every metadata
InitFrame ==
    InitWith(FrameOptions, {<<>>, DefaultTemplate}, BOOLEAN,
             {<<Video(ClipMp4, t, r[1], r[2])>> : t \in Totals, r \in Rates}, {{}})

SpecFrame == InitFrame /\ [][Next]_vars

\* frame resolution against sound metadata only: at least one frame, fps > 0
InitSound ==
    InitWith(FrameOptions, {<<>>, DefaultTemplate}, BOOLEAN,
             {<<Video(ClipMp4, t, r[1], r[2])>> : t \in Totals \ {0}, r \in {x \in Rates : x[1] > 0}},
             {{}})

SpecSound == InitSound /\ [][Next]_vars

\* naming: one video, every template
InitName ==
    \/ InitWith({IntOption(42)}, Concats(MaxSegs), {FALSE},
                {<<v>> : v \in CoreVideos}, {{}})
    \/ InitWith({IntOption(42)}, FixedTemplates, {FALSE},
                {<<v>> : v \in NamedVideos}, {{}})
    \/ InitWith({IntOption(42)}, {<<>>, DefaultTemplate}, {TRUE},
                {<<v>> : v \in NamedVideos}, {{}})

SpecName == InitName /\ [][Next]_vars

\* de-duplication: videos that share a name, and output names already taken
SameNameVideos == {Video(<<"o", "u", "t", ".", "m", "p", "4">>, 100, 30, 1), Video(<<"o", "u", "t", ".", "a", "v", "i">>, 100, 30, 1)}

RECURSIVE NumberedUpTo(_)
\* out.jpg, out_1.jpg, ..., out_n.jpg in the output directory
NumberedUpTo(n) ==
    IF n = 0 THEN {path_join(output_dir, <<"o", "u", "t", ".", "j", "p", "g">>)}
    ELSE NumberedUpTo(n - 1)
         \cup {path_join(output_dir, <<"o", "u", "t">> \o <<"_">> \o NatStr(n) \o <<".", "j", "p", "g">>)}

InitDedupe ==
    InitWith({IntOption(0)}, {<<>>, <<"o", "u", "t">>}, BOOLEAN,
             ListsUpTo(SameNameVideos, MaxFiles), SUBSET NumberedUpTo(MaxExisting))

SpecDedupe == InitDedupe /\ [][Next]_vars

-----------------------------------------------------------------------------
(* Properties *)

Entries == {log[k] : k \in 1..Len(log)}

CapOf(e) == files[e.file]

IsTimeOption == frame_option.kind = "str" /\ StartsWith(frame_option.s, Str_t_plus)

\* the expression after 't+'
TimeExpr == Slice(frame_option.s, 3, Len(frame_option.s))

Clamp(n, lo, hi) == IF n < lo THEN lo ELSE IF n > hi THEN hi ELSE n

\* the calls that reached the naming of lines 119-127
NamingEntries == {e \in Entries : e.outcome \in {"saved", "unsaved", "error"}}

\* the calls that went on to cv2.imwrite under the name they built
WritingEntries == {e \in Entries : e.outcome \in {"saved", "unsaved"}}

UsesTemplate == ~keep_original_name /\ name_pattern # <<>>

(* C1: an integer frame option n against a video of T >= 1 frames resolves *)
(* to n when 0 <= n <= T-1, to 0 when n < 0 and to T-1 when n > T-1, with  *)
(* no warning and no error.                                                *)
C1_AbsoluteClamped ==
    \A e \in Entries :
        (e.resolved /\ frame_option.kind = "int" /\ CapOf(e).total >= 1) =>
            LET n == frame_option.n
                T == CapOf(e).total
            IN  /\ 0 <= e.frame /\ e.frame <= T - 1
                /\ (0 <= n /\ n <= T - 1) => e.frame = n
                /\ n < 0 => e.frame = 0
                /\ n > T - 1 => e.frame = T - 1
                /\ ~e.warned

\* a frame beyond the last one was asked for and the last one was sought
C1_Witness ==
    \E e \in Entries :
        /\ e.sought /\ frame_option.kind = "int"
        /\ frame_option.n = 5000 /\ CapOf(e).total = 100 /\ e.frame = 99

(* C2: in every call of extract_frame the index sought lies in              *)
(* [0, totalFrames-1], and a video of 0 frames ends as a failure of that    *)
(* file with no index resolved, no seek or read attempted and no image      *)
(* written.                                                                 *)
C2_IndexAlwaysInRange ==
    \A e \in Entries :
        /\ e.sought => (0 <= e.frame /\ e.frame <= CapOf(e).total - 1)
        /\ CapOf(e).total = 0 =>
              /\ e.outcome \in {"open_failed", "read_failed", "error"}
              /\ ~e.resolved /\ ~e.sought /\ e.path = NoName

\* the expression has a character that is neither a digit nor h, m or s
HasUnknownUnit(expr) ==
    \E k \in 1..Len(expr) : ~IsDigit(expr[k]) /\ expr[k] \notin {"h", "m", "s"}

\* the expression has a unit letter that no digit comes right before
HasBareUnit(expr) ==
    \E k \in 1..Len(expr) :
        /\ expr[k] \in {"h", "m", "s"}
        /\ (k = 1 \/ ~IsDigit(expr[k - 1]))

(* C3: a 't+' expression with an unknown unit character or a malformed     *)
(* sequence is a parse failure: frame 0 is returned and a warning printed. *)
C3_BadExpressionFallsBack ==
    \A e \in Entries :
        (e.resolved /\ IsTimeOption /\ (HasUnknownUnit(TimeExpr) \/ HasBareUnit(TimeExpr))) =>
            (e.frame = 0 /\ e.warned)

RECURSIVE DurationFrom(_, _, _)
\* the seconds a well-formed expression stands for: every <digits><unit>
\* pair counted in its unit, trailing digits as seconds
DurationFrom(expr, k, cur) ==
    IF k > Len(expr) THEN (IF cur = <<>> THEN 0 ELSE StrNat(cur))
    ELSE IF IsDigit(expr[k]) THEN DurationFrom(expr, k + 1, cur \o <<expr[k]>>)
    ELSE StrNat(cur) * (IF expr[k] = "h" THEN 3600 ELSE IF expr[k] = "m" THEN 60 ELSE 1)
         + DurationFrom(expr, k + 1, <<>>)

Duration(expr) == DurationFrom(expr, 1, <<>>)

(* C4: when the decoder reports fps <= 0, 30.0 stands for fps everywhere:  *)
(* 't+' of d seconds resolves to trunc(d * 30) clamped into                *)
(* [0, totalFrames-1], the time label is index / 30, and a warning is      *)
(* printed.                                                                *)
C4_DefaultFpsEverywhere ==
    \A e \in Entries :
        (/\ e.resolved /\ IsTimeOption /\ TimeExpr \in WellFormedTimes
         /\ CapOf(e).fps.num <= 0 /\ CapOf(e).total >= 1) =>
            /\ e.frame = Clamp(Duration(TimeExpr) * DEFAULT_FPS, 0, CapOf(e).total - 1)
            /\ e.fps_warned
            /\ (e.named /\ ~keep_original_name /\ name_pattern = <<>>) =>
                  e.filename = DefaultName(original_name(CapOf(e).path), e.frame,
                                           TimeLabel(e.frame, [num |-> DEFAULT_FPS, den |-> 1]))

(* C9: a well-formed 't+' expression of d seconds resolves to              *)
(* trunc(d * fps) clamped into [0, totalFrames-1]; the empty expression    *)
(* resolves to 0 whatever the fps.                                         *)
C9_RelativeResolves ==
    \A e \in Entries :
        (/\ e.resolved /\ IsTimeOption /\ TimeExpr \in WellFormedTimes
         /\ CapOf(e).total >= 1) =>
            /\ e.frame = Clamp(Trunc(Duration(TimeExpr) * CapOf(e).fps.num, CapOf(e).fps.den),
                               0, CapOf(e).total - 1)
            /\ TimeExpr = <<>> => e.frame = 0

\* the directive {n.replace(<old>,<new>)}
ReplaceDirective(old, new) ==
    <<"{">> \o Str_replace \o old \o <<",">> \o new \o <<")", "}">>

\* position of the first occurrence of the non-empty old in s, 0 when none
FirstOccurrence(s, old) ==
    IF \E k \in 1..Len(s) : OccursAt(s, old, k)
    THEN CHOOSE k \in 1..Len(s) : OccursAt(s, old, k) /\ \A j \in 1..(k - 1) : ~OccursAt(s, old, j)
    ELSE 0

\* s with only the first occurrence of old replaced by new
FirstReplaced(s, old, new) ==
    IF old = <<>> THEN new \o s
    ELSE IF FirstOccurrence(s, old) = 0 THEN s
    ELSE SubSeq(s, 1, FirstOccurrence(s, old) - 1) \o new
         \o SubSeq(s, FirstOccurrence(s, old) + Len(old), Len(s))

RECURSIVE EveryReplaced(_, _, _)
\* s with every occurrence of old replaced by new: the first one, then
\* every one in what follows it; an empty old stands before every character
\* and at the end
EveryReplaced(s, old, new) ==
    IF old = <<>>
    THEN (IF s = <<>> THEN new ELSE new \o <<s[1]>> \o EveryReplaced(Tail(s), old, new))
    ELSE IF FirstOccurrence(s, old) = 0 THEN s
    ELSE SubSeq(s, 1, FirstOccurrence(s, old) - 1) \o new
         \o EveryReplaced(SubSeq(s, FirstOccurrence(s, old) + Len(old), Len(s)), old, new)

\* arguments of the directive and plain text around it
OldArgs == {<<>>, <<"a">>, <<"a", "n">>}
NewArgs == {<<>>, <<"X">>, <<"X", ",", "Y">>}
PlainTexts == {<<>>, <<"_">>, <<"_", "_">>}

\* every directive with its first argument in olds renders as Rendered says
ReplaceRendersAs(Rendered(_, _, _), olds) ==
    \A e \in NamingEntries : \A old \in olds, new \in NewArgs, pre \in PlainTexts, post \in PlainTexts :
        (UsesTemplate /\ name_pattern = pre \o ReplaceDirective(old, new) \o post) =>
            (e.named /\ e.filename = pre \o Rendered(original_name(CapOf(e).path), old, new) \o post)

(* C5 as stated: {n.replace(<old>,<new>)} renders to the basename with     *)
(* only the first occurrence of <old> replaced by <new> (here for the      *)
(* non-empty <old> alone).                                                 *)
C5_FirstOccurrenceOnly == ReplaceRendersAs(FirstReplaced, OldArgs \ {<<>>})

(* C5 as amended: {n.replace(<old>,<new>)} renders to the basename with    *)
(* every occurrence of <old> replaced by <new>; <new> is all the text      *)
(* after the first comma.                                                  *)
C5_EveryOccurrence == ReplaceRendersAs(EveryReplaced, OldArgs)

\* banana under {n.replace(a,X)} was named bXnXnX
C5_Witness ==
    \E e \in WritingEntries :
        /\ UsesTemplate
        /\ name_pattern = ReplaceDirective(<<"a">>, <<"X">>)
        /\ original_name(CapOf(e).path) = <<"b", "a", "n", "a", "n", "a">>
        /\ e.filename = <<"b", "X", "n", "X", "n", "X">>

\* evaluating the template raises inside apply_regex_pattern
TemplateFails(e) ==
    ~PatternBody(original_name(CapOf(e).path), name_pattern, e.frame,
                 time_position(CapOf(e), e.frame)).ok

(* C6: apply_regex_pattern always returns a string; when a directive fails *)
(* inside it the result is the basename followed by '_error', and the file *)
(* is written under that name, not skipped.                                *)
C6_RenderTotal ==
    \A e \in NamingEntries :
        UsesTemplate =>
            /\ e.named
            /\ TemplateFails(e) =>
                  /\ e.filename = original_name(CapOf(e).path) \o Str_error
                  /\ e.outcome \in {"saved", "unsaved"} =>
                        e.requested = OutputPath(original_name(CapOf(e).path) \o Str_error)
                  /\ e.outcome = "saved" => e.path \in fs

\* a template whose directive fails, and the image saved as <basename>_error
C6_Witness ==
    \E e \in Entries :
        /\ UsesTemplate /\ e.outcome = "saved" /\ TemplateFails(e)
        /\ e.filename = original_name(CapOf(e).path) \o Str_error
        /\ e.path \in fs

\* the calls so far are those of the first files of the list, one each, in order
AttemptedInOrder ==
    /\ \A k \in 1..Len(log) : log[k].file = k
    /\ pc = "loop" => (Len(log) = i - 1 /\ i <= Len(files))
    /\ pc = "done" => Len(log) = Len(files)

BatchOver == pc = "exit1" \/ (pc = "done" /\ Len(log) = Len(files))

(* C7: the batch attempts every file of the list exactly once, in list     *)
(* order, and goes on to the next file after any failure, until the list   *)
(* is exhausted.                                                           *)
C7_BatchContinues == []AttemptedInOrder /\ <>BatchOver

\* a file that failed to open, and the next file saved after it
C7_Witness ==
    /\ pc = "done" /\ Len(log) = 2
    /\ log[1].outcome = "open_failed"
    /\ log[2].outcome = "saved"

\* '<base>_<k><ext>'
Numbered(path, k) == splitext(path).root \o <<"_">> \o NatStr(k) \o splitext(path).ext

\* the call just made went on to write: its path was free before the call,
\* and is the requested one or its first free numbered copy
DedupedStep ==
    (Len(log') = Len(log) + 1 /\ log'[Len(log')].outcome \in {"saved", "unsaved"}) =>
        LET e == log'[Len(log')]
        IN  /\ e.path \notin fs
            /\ e.requested \notin fs => e.path = e.requested
            /\ e.requested \in fs =>
                  \E k \in 1..(Cardinality(fs) + 1) :
                      /\ e.path = Numbered(e.requested, k)
                      /\ \A j \in 1..(k - 1) : Numbered(e.requested, j) \in fs

(* C8: avoid_overwrite returns a path that does not exist at call time:    *)
(* the path itself when free, else '<base>_<k><ext>' for the smallest      *)
(* k >= 1 whose name is free.                                              *)
C8_DedupeFree == [][DedupedStep]_vars

\* out.jpg and out_1.jpg existed, and out_2.jpg was written
C8_Witness ==
    \E e \in Entries :
        /\ e.outcome = "saved"
        /\ e.requested = path_join(output_dir, <<"o", "u", "t", ".", "j", "p", "g">>)
        /\ e.path = path_join(output_dir, <<"o", "u", "t", "_", "2", ".", "j", "p", "g">>)

(* C10: under the template '{n}_f{f}_{t}' every plain token is replaced by *)
(* its own expansion only, and the name is the one the default naming      *)
(* scheme gives: '<basename>_f<6-digit index>_<time label>'.               *)
C10_PlainTokens ==
    \A e \in NamingEntries :
        (UsesTemplate /\ name_pattern = DefaultTemplate) =>
            e.filename = DefaultName(original_name(CapOf(e).path), e.frame,
                                     time_position(CapOf(e), e.frame))

====
